---- MODULE Spec2Model ----
(***************************************************************************)
(* Sample-processing core of AP_InertialSensor_Backend: the producer side  *)
(* (notify_new_*_sample), the consumer side (update_gyro / update_accel)   *)
(* and the primary reconcile, for one backend that owns one gyro instance  *)
(* and one accel instance.                                                 *)
(*                                                                         *)
(* Numbers.  Times are unsigned microseconds as in the source.  A float    *)
(* is an integer, or one of the two non-finite values NaN and Inf.  Gyro   *)
(* and accel readings are small integers (rad/s, m/s/s).  A delta angle is *)
(* held in units of 1/AngleScale rad and a delta velocity in units of      *)
(* 1/1000 m/s, so that with dt in microseconds                             *)
(*     (g + last) * 0.5 * dt   is   (g + last) * dt \div 1000              *)
(*     accel * dt              is   accel * dt \div 1000.                  *)
(* Accumulated dt is held in microseconds, sample rates in milli-Hz.       *)
(***************************************************************************)
EXTENDS Integers, Sequences, FiniteSets, TLC

\* ------------------------------------------------------------------ bounds
MaxSamples == 2
MaxTimeUs == 160000
MaxHeartbeatTimeUs == 460000
MaxPrimaryChanges == 1
MaxRateTimeUs == 1040000
MaxStreamTimeUs == 20000000
\* where the microsecond counters of the model wrap round (2^25, standing for
\* the 2^64 of a uint64_t, which TLC integers cannot hold)
CounterWrapUs == 33554432

\* ------------------------------------------------------- program constants
PRIMARY_UPDATE_TIMEOUT_US == 200000
StaleGapUs == 100000
RateWindowUs == 1000000
MinRateMilliHz == 40000
HAL_INS_CONVERGANCE_US == 30000000
AngleScale == 2000
NaN == 1000001
Inf == 1000002
gyro_instance == 0

\* ------------------------------------------------------------ float model
IsFiniteC(c) == c # NaN /\ c # Inf

FAdd(a, b) ==
    IF a = NaN \/ b = NaN THEN NaN
    ELSE IF a = Inf \/ b = Inf THEN Inf
    ELSE a + b

FSub(a, b) ==
    IF a = NaN \/ b = NaN THEN NaN
    ELSE IF a = Inf /\ b = Inf THEN NaN
    ELSE IF a = Inf \/ b = Inf THEN Inf
    ELSE a - b

FMul(a, b) ==
    IF a = NaN \/ b = NaN THEN NaN
    ELSE IF a = Inf \/ b = Inf THEN (IF a = 0 \/ b = 0 THEN NaN ELSE Inf)
    ELSE a * b

\* division by a finite positive constant
FDiv(a, k) == IF IsFiniteC(a) THEN a \div k ELSE a

FNeg(a) == IF IsFiniteC(a) THEN 0 - a ELSE a

\* ----------------------------------------------------------- Vector3f
VZero == <<0, 0, 0>>
VAdd(u, v) == <<FAdd(u[1], v[1]), FAdd(u[2], v[2]), FAdd(u[3], v[3])>>
VSub(u, v) == <<FSub(u[1], v[1]), FSub(u[2], v[2]), FSub(u[3], v[3])>>
VMul(u, k) == <<FMul(u[1], k), FMul(u[2], k), FMul(u[3], k)>>
VDiv(u, k) == <<FDiv(u[1], k), FDiv(u[2], k), FDiv(u[3], k)>>
VMulAxes(u, s) == <<FMul(u[1], s[1]), FMul(u[2], s[2]), FMul(u[3], s[3])>>

\* Vector3f::operator% is the cross product
VCross(u, v) ==
    << FSub(FMul(u[2], v[3]), FMul(u[3], v[2])),
       FSub(FMul(u[3], v[1]), FMul(u[1], v[3])),
       FSub(FMul(u[1], v[2]), FMul(u[2], v[1])) >>

is_nan(v) == \E i \in 1..3 : v[i] = NaN
is_inf(v) == \E i \in 1..3 : v[i] = Inf
IsFiniteV(v) == ~is_nan(v) /\ ~is_inf(v)

\* Vector3f::rotate(enum Rotation), for the three rotations the model uses
Rotate(v, r) ==
    CASE r = "ROTATION_NONE"    -> v
      [] r = "ROTATION_YAW_90"  -> <<FNeg(v[2]), v[1], v[3]>>
      [] r = "ROTATION_YAW_180" -> <<FNeg(v[1]), FNeg(v[2]), v[3]>>

\* unsigned difference of two microsecond counters (uint64_t - uint64_t): the
\* counters stay far below the wrap, and a difference below zero wraps round
ElapsedUs(now_us, then_us) == (now_us - then_us) % CounterWrapUs

\* ---------------------------------------------------- digital filter stage
\* A filter stage (LowPassFilter2p / HarmonicNotchFilter) as the backend
\* sees it: reset() forgets the history so that the next output is the next
\* input; apply() blends the input into the history; a non-finite input or
\* history gives a non-finite output and history.
FilterReset(f) == [f EXCEPT !.init = FALSE, !.y = VZero]
FilterOut(f, x) == IF f.init THEN VDiv(VAdd(f.y, x), 2) ELSE x
FilterApply(f, x) == [f EXCEPT !.init = TRUE, !.y = FilterOut(f, x)]
FilterSetCutoff(f, hz) == [f EXCEPT !.cutoff = hz]
FilterInit == [init |-> FALSE, y |-> VZero, cutoff |-> 0]

\* ------------------------------------------------------------ RateEstimator
constrain_float(x, lo, hi) == IF x < lo THEN lo ELSE IF x > hi THEN hi ELSE x

\* AP_HAL::millis64() < HAL_INS_CONVERGANCE_MS && !hal.util->get_soft_armed()
sensors_converging(now_us, soft_armed) ==
    now_us < HAL_INS_CONVERGANCE_US /\ ~soft_armed

\* observed_rate_hz = count * 1.0e6f / (now - start_us), in milli-Hz
ObservedRate(count, elapsed_us) == (count * 1000000) \div (elapsed_us \div 1000)

\* the blend with the observed rate left unclamped
BlendRate_Unclamped(rate_hz, observed, converging) ==
    LET filter_constant == IF converging THEN 80 ELSE 98
    IN  (filter_constant * rate_hz + (100 - filter_constant) * observed) \div 100

\* the blend of the clamped observed rate into rate_hz
BlendRate(rate_hz, observed, converging) ==
    LET filter_constant == IF converging THEN 80 ELSE 98
        lo == IF converging THEN rate_hz \div 2 ELSE (rate_hz * 95) \div 100
        hi == IF converging THEN rate_hz * 2 ELSE (rate_hz * 105) \div 100
        obs == constrain_float(observed, lo, hi)
    IN  (filter_constant * rate_hz + (100 - filter_constant) * obs) \div 100

\* _update_sensor_rate never starting a new count at the end of a window
UpdateSensorRate_KeepCount(count, start_us, rate_hz, now_us, converging) ==
    IF start_us = 0
    THEN [count |-> 0, start_us |-> now_us, rate_hz |-> rate_hz]
    ELSE LET c == (count + 1) % 65536
             el == ElapsedUs(now_us, start_us)
         IN  IF el > RateWindowUs
             THEN [count |-> c, start_us |-> now_us,
                   rate_hz |-> BlendRate(rate_hz, ObservedRate(c, el), converging)]
             ELSE [count |-> c, start_us |-> start_us, rate_hz |-> rate_hz]

\* _update_sensor_rate(count, start_us, rate_hz): the three fields after the call
UpdateSensorRate(count, start_us, rate_hz, now_us, converging) ==
    IF start_us = 0
    THEN [count |-> 0, start_us |-> now_us, rate_hz |-> rate_hz]
    ELSE LET c == (count + 1) % 65536
             el == ElapsedUs(now_us, start_us)
         IN  IF el > RateWindowUs
             THEN [count |-> 0, start_us |-> now_us,
                   rate_hz |-> BlendRate(rate_hz, ObservedRate(c, el), converging)]
             ELSE [count |-> c, start_us |-> start_us, rate_hz |-> rate_hz]

\* a notify call that accepts a sample at any rate
RateTooLow_Never(rate_hz) == FALSE

\* don't accept below 40Hz
RateTooLow(rate_hz) == rate_hz < MinRateMilliHz

\* dt = 1.0f / rate, in microseconds
RateDt(rate_hz) == 1000000000 \div rate_hz

\* ---------------------------------------------------------- CorrectionStage
\* configuration read on each correction call
gyro_orientation == "ROTATION_YAW_90"
accel_orientation == "ROTATION_YAW_90"
board_orientation == "ROTATION_YAW_180"
gyro_offset == <<1, 0, 0>>
accel_offset == <<0, 0, 1>>
accel_scale == <<2, 1, 1>>

rotate_and_correct_gyro(gyro, calibrating_gyro) ==
    LET g1 == Rotate(gyro, gyro_orientation)
        g2 == IF ~calibrating_gyro THEN VSub(g1, gyro_offset) ELSE g1
    IN  Rotate(g2, board_orientation)

\* _rotate_and_correct_accel applying offset and scale in every calibration state
rotate_and_correct_accel_AlwaysCorrects(accel, calibrating_accel, acal_running) ==
    LET a1 == Rotate(accel, accel_orientation)
    IN  Rotate(VMulAxes(VSub(a1, accel_offset), accel_scale), board_orientation)

rotate_and_correct_accel(accel, calibrating_accel, acal_running) ==
    LET a1 == Rotate(accel, accel_orientation)
        a2 == IF ~calibrating_accel /\ ~acal_running
              THEN VMulAxes(VSub(a1, accel_offset), accel_scale)
              ELSE a1
    IN  Rotate(a2, board_orientation)

\* _notify_new_delta_angle integrating the rate without correcting it
DeltaAngleRate_Uncorrected(dangle, dt, calibrating_gyro) == VDiv(VMul(dangle, 1000), 2 * dt)

\* Vector3f gyro = dangle / dt; _rotate_and_correct_gyro(instance, gyro);
DeltaAngleRate(dangle, dt, calibrating_gyro) ==
    rotate_and_correct_gyro(VDiv(VMul(dangle, 1000), 2 * dt), calibrating_gyro)

\* Vector3f accel = dvel / dt; _rotate_and_correct_accel(instance, accel);
DeltaVelocityAccel(dvel, dt, calibrating_accel, acal_running) ==
    rotate_and_correct_accel(VDiv(VMul(dvel, 1000), dt), calibrating_accel, acal_running)

\* ---------------------------------------------------------- DeltaIntegrator
\* (gyro + last_raw_gyro) * 0.5f * dt
TrapezoidDelta(gyro, last_raw, dt) == VDiv(VMul(VAdd(gyro, last_raw), dt), 1000)

\* the delta-angle path integrating half of gyro * dt
DeltaFromRate_Half(gyro, dt) == VDiv(VMul(gyro, dt), 1000)

\* gyro * dt on the delta-angle path
DeltaFromRate(gyro, dt) == VDiv(VMul(gyro, 2 * dt), 1000)

\* gyro = dangle / dt
RateFromDelta(dangle, dt) == VDiv(VMul(dangle, 1000), 2 * dt)

\* accel * dt
VelocityDelta(accel, dt) == VDiv(VMul(accel, dt), 1000)

\* accel = dvel / dt
AccelFromDelta(dvel, dt) == VDiv(VMul(dvel, 1000), dt)

\* ((acc + last_delta * (1/6)) % delta_angle) * 0.5
ConingCorrection(acc, last_delta, delta_angle) ==
    VDiv(VCross(VAdd(VMul(acc, 6), last_delta), delta_angle), 12 * AngleScale)

\* now - last_sample_us > 100000U
IsStale(now_us, last_sample_us) == ElapsedUs(now_us, last_sample_us) > StaleGapUs

\* the locked gyro accumulate step: the accumulator fields after it
IntegrateAngle(acc, acc_dt, dt, delta_angle, delta_coning, stale) ==
    LET acc0 == IF stale THEN VZero ELSE acc
        acc_dt0 == IF stale THEN 0 ELSE acc_dt
        dt1 == IF stale THEN 0 ELSE dt
        delta1 == IF stale THEN VZero ELSE delta_angle
    IN  [acc |-> VAdd(acc0, VAdd(delta1, delta_coning)),
         acc_dt |-> acc_dt0 + dt1,
         last_delta |-> delta1,
         dt |-> dt1]

\* IntegrateVelocity with the stale reset leaving the sample's dt in place
IntegrateVelocity_KeepDt(acc, acc_dt, dt, accel, stale) ==
    LET acc0 == IF stale THEN VZero ELSE acc
        acc_dt0 == IF stale THEN 0 ELSE acc_dt
    IN  [acc |-> VAdd(acc0, VelocityDelta(accel, dt)),
         acc_dt |-> acc_dt0 + dt,
         dt |-> dt]

\* the locked accel accumulate step
IntegrateVelocity(acc, acc_dt, dt, accel, stale) ==
    LET acc0 == IF stale THEN VZero ELSE acc
        acc_dt0 == IF stale THEN 0 ELSE acc_dt
        dt1 == IF stale THEN 0 ELSE dt
    IN  [acc |-> VAdd(acc0, VelocityDelta(accel, dt1)),
         acc_dt |-> acc_dt0 + dt1,
         dt |-> dt1]

\* ------------------------------------------------------------- FilterChain
\* the configured harmonic notches: enabled (as configured at start), option
\* EnableOnAllIMUs, is_inactive()
harmonic_notches ==
    << [enabled |-> TRUE,  all_imus |-> FALSE, inactive |-> FALSE],
       [enabled |-> TRUE,  all_imus |-> TRUE,  inactive |-> TRUE],
       [enabled |-> FALSE, all_imus |-> TRUE,  inactive |-> FALSE] >>

Notches == 1..Len(harmonic_notches)

\* whether the notch loop applies notch n for this instance; enabled[n] is
\* notch.params.enabled() as the call finds it
NotchApplies(n, primary, enabled) ==
    /\ enabled[n]
    /\ ~harmonic_notches[n].inactive
    /\ (harmonic_notches[n].all_imus \/ gyro_instance = primary)

\* the notch loop resetting every notch it does not apply
NotchSkippedWithReset_DisabledToo(n, primary, enabled) ==
    ~NotchApplies(n, primary, enabled)

\* whether the notch loop resets notch n for this instance
NotchSkippedWithReset(n, primary, enabled) ==
    /\ enabled[n]
    /\ ~NotchApplies(n, primary, enabled)

\* the notch loop over notches 1..n: the running value and the notch states
RECURSIVE NotchCascade(_, _, _, _, _)
NotchCascade(n, gyro_in, notch, primary, enabled) ==
    IF n = 0 THEN [out |-> gyro_in, notch |-> notch]
    ELSE LET prev == NotchCascade(n - 1, gyro_in, notch, primary, enabled)
         IN  IF NotchApplies(n, primary, enabled)
             THEN [out |-> FilterOut(prev.notch[n], prev.out),
                   notch |-> [prev.notch EXCEPT ![n] = FilterApply(prev.notch[n], prev.out)]]
             ELSE IF NotchSkippedWithReset(n, primary, enabled)
             THEN [out |-> prev.out,
                   notch |-> [prev.notch EXCEPT ![n] = FilterReset(prev.notch[n])]]
             ELSE prev

\* whether the filtering "failed in any way"
FilterFailed(v) == is_nan(v) \/ is_inf(v)

\* apply_gyro_filters without the fallback to the previous filtered value
apply_gyro_filters_NoFallback(gyro_in, lpf, notch, filtered, primary, store, enabled) ==
    LET nc == NotchCascade(Len(harmonic_notches), gyro_in, notch, primary, enabled)
        out == FilterOut(lpf, nc.out)
        failed == FilterFailed(out)
    IN  [lpf |-> IF failed THEN FilterReset(lpf) ELSE FilterApply(lpf, nc.out),
         notch |-> IF failed THEN [n \in Notches |-> FilterReset(nc.notch[n])]
                   ELSE nc.notch,
         filtered |-> IF store THEN out ELSE filtered,
         failed |-> failed]

\* apply_gyro_filters: filter states and the stored filtered value after it.
\* store is FALSE when the rate loop is enabled and did not use the value.
apply_gyro_filters(gyro_in, lpf, notch, filtered, primary, store, enabled) ==
    LET nc == NotchCascade(Len(harmonic_notches), gyro_in, notch, primary, enabled)
        out == FilterOut(lpf, nc.out)
        failed == FilterFailed(out)
        result == IF failed THEN filtered ELSE out
    IN  [lpf |-> IF failed THEN FilterReset(lpf) ELSE FilterApply(lpf, nc.out),
         notch |-> IF failed THEN [n \in Notches |-> FilterReset(nc.notch[n])]
                   ELSE nc.notch,
         filtered |-> IF store THEN result ELSE filtered,
         failed |-> failed]

\* the accel low pass stage of notify_new_accel_raw_sample
apply_accel_filter(accel_in, lpf) ==
    LET out == FilterOut(lpf, accel_in)
        failed == FilterFailed(out)
    IN  [lpf |-> IF failed THEN FilterReset(lpf) ELSE FilterApply(lpf, accel_in),
         filtered |-> out,
         failed |-> failed]

\* ------------------------------------------------------------- PublishGate
\* _publish_gyro leaving the accumulated dt in place
publish_gyro_KeepDt(filtered, acc, acc_dt) ==
    [gyro |-> filtered, healthy |-> TRUE,
     delta |-> acc, delta_dt |-> acc_dt, valid |-> TRUE,
     acc |-> VZero, acc_dt |-> acc_dt]

\* _publish_gyro, for an instance that has not been killed
publish_gyro(filtered, acc, acc_dt) ==
    [gyro |-> filtered, healthy |-> TRUE,
     delta |-> acc, delta_dt |-> acc_dt, valid |-> TRUE,
     acc |-> VZero, acc_dt |-> 0]

\* _publish_accel publishing no dt
publish_accel_DropDt(filtered, acc, acc_dt) ==
    [accel |-> filtered, healthy |-> TRUE,
     delta |-> acc, delta_dt |-> 0, valid |-> TRUE,
     acc |-> VZero, acc_dt |-> 0]

\* _publish_accel, for an instance that has not been killed
publish_accel(filtered, acc, acc_dt) ==
    [accel |-> filtered, healthy |-> TRUE,
     delta |-> acc, delta_dt |-> acc_dt, valid |-> TRUE,
     acc |-> VZero, acc_dt |-> 0]

\* ---------------------------------------------------------- PrimarySelector
\* AP_HAL::timeout_expired(last_primary_update_us, now_us, PRIMARY_UPDATE_TIMEOUT_US)
timeout_expired(past_us, now_us, timeout_us) == ElapsedUs(now_us, past_us) > timeout_us

\* update_primary notifying on a state change only
PrimaryNotifies_EdgeOnly(was_primary, is_new_primary, last_us, now_us) ==
    was_primary # is_new_primary

\* update_primary notifying on every call
PrimaryNotifies_Always(was_primary, is_new_primary, last_us, now_us) == TRUE

\* the condition under which update_primary calls set_primary
PrimaryNotifies(was_primary, is_new_primary, last_us, now_us) ==
    \/ was_primary # is_new_primary
    \/ timeout_expired(last_us, now_us, PRIMARY_UPDATE_TIMEOUT_US)

\* ------------------------------------------------------------------- state
VARIABLES
    now_us,                    \* AP_HAL::micros64()
    killed,                    \* has_been_killed(instance)
    imu_primary,               \* _imu._primary, set by the front end
    primary_changes,           \* how often the front end has changed it
    gyro_filter_cutoff,        \* _gyro_filter_cutoff(), the configured target
    accel_filter_cutoff,       \* _accel_filter_cutoff()
    notch_enabled,             \* notch.params.enabled() of each harmonic notch
    sem,                       \* _sem: "free", "producer" or "consumer"
    \* gyro instance
    sample_gyro_count, sample_gyro_start_us, gyro_raw_sample_rates,
    gyro_last_sample_us,
    delta_angle_acc, delta_angle_acc_dt, last_delta_angle, last_raw_gyro,
    gyro_filter, notch_filter, gyro_filtered, last_gyro_filter_hz,
    new_gyro_data,
    gyro, gyro_healthy, delta_angle, delta_angle_dt, delta_angle_valid,
    \* accel instance
    sample_accel_count, sample_accel_start_us, accel_raw_sample_rates,
    accel_last_sample_us,
    delta_velocity_acc, delta_velocity_acc_dt,
    accel_filter, accel_filtered, last_accel_filter_hz,
    new_accel_data,
    accel, accel_healthy, delta_velocity, delta_velocity_dt, delta_velocity_valid,
    temperature,
    \* primary reconcile
    is_primary, last_primary_update_us,
    \* the producer thread: position and locals of the notify call in progress
    p_pc, p_sample, p_sample_us, p_dt, p_last_sample_us,
    p_delta_angle, p_delta_coning, p_acc_read,
    p_input,                   \* the value the notify call was given
    p_cal,                     \* whether the call found the sensor's calibration active
    \* the consumer thread
    c_pc,
    \* history
    n_samples,                 \* notify calls begun
    last_call,                 \* the notify call begun last
    gyro_given,                \* the gyro notify calls begun: the call and the value given
    set_primary_calls,         \* calls of set_primary
    set_primary_arg,           \* argument of the last one
    unlocked_writes,           \* fields written by a thread not holding _sem
    gyro_folded_dt,            \* sum of dt folded into delta_angle_acc since it was last zeroed
    accel_folded_dt,
    gyro_pending_dt,           \* dt folded and neither published nor discarded yet
    accel_pending_dt,
    gyro_filter_failed,        \* the last gyro filter-chain output was non-finite
    accel_filter_failed

gyroTiming == <<sample_gyro_count, sample_gyro_start_us, gyro_raw_sample_rates>>
gyroAccum == <<delta_angle_acc, delta_angle_acc_dt, last_delta_angle, last_raw_gyro>>
gyroFilt == <<gyro_filter, notch_filter, gyro_filtered, last_gyro_filter_hz>>
gyroPub == <<gyro, gyro_healthy, delta_angle, delta_angle_dt, delta_angle_valid>>
gyroHist == <<gyro_folded_dt, gyro_pending_dt, gyro_filter_failed>>
gyroVars == <<gyroTiming, gyro_last_sample_us, gyroAccum, gyroFilt, new_gyro_data, gyroPub, gyroHist>>

accelTiming == <<sample_accel_count, sample_accel_start_us, accel_raw_sample_rates>>
accelAccum == <<delta_velocity_acc, delta_velocity_acc_dt>>
accelFilt == <<accel_filter, accel_filtered, last_accel_filter_hz>>
accelPub == <<accel, accel_healthy, delta_velocity, delta_velocity_dt, delta_velocity_valid>>
accelHist == <<accel_folded_dt, accel_pending_dt, accel_filter_failed>>
accelVars == <<accelTiming, accel_last_sample_us, accelAccum, accelFilt, new_accel_data, accelPub, accelHist>>

primaryVars == <<is_primary, last_primary_update_us, set_primary_calls, set_primary_arg>>
envVars == <<killed, imu_primary, primary_changes, gyro_filter_cutoff, accel_filter_cutoff,
             notch_enabled>>
callHist == <<n_samples, last_call, gyro_given>>
prodLocals == <<p_sample, p_sample_us, p_dt, p_last_sample_us, p_delta_angle, p_delta_coning,
                p_acc_read, p_input, p_cal>>

vars == <<now_us, envVars, sem, gyroVars, accelVars, temperature, primaryVars,
          p_pc, prodLocals, c_pc, callHist, unlocked_writes>>

\* ------------------------------------------------------------------ inputs
TickChoices == {20000, 120000}

\* the sample rates a sensor is registered with, in milli-Hz
RateChoices == {30000, 41000, 50000}

\* a sample timestamp: 0 for a FIFO sensor, else the time of the sample
SampleTimes == {0, now_us}

\* sample timestamps of a sensor whose clock is not the arrival clock: also
\* 10 ms before the arrival time, which is before the previous sample's
\* timestamp when that sample arrived at the same time, and 110 ms after it
SkewedSampleTimes == {0, now_us, now_us - 10000, now_us + 110000}

InitWith(gyro_rate, accel_rate, primary_flags) ==
    /\ now_us = 20000
    /\ killed = FALSE
    /\ imu_primary = 0
    /\ primary_changes = 0
    /\ gyro_filter_cutoff = 20
    /\ accel_filter_cutoff = 20
    /\ notch_enabled = [n \in Notches |-> harmonic_notches[n].enabled]
    /\ sem = "free"
    /\ sample_gyro_count = 0
    /\ sample_gyro_start_us = 0
    /\ gyro_raw_sample_rates = gyro_rate
    /\ gyro_last_sample_us = 0
    /\ delta_angle_acc = VZero
    /\ delta_angle_acc_dt = 0
    /\ last_delta_angle = VZero
    /\ last_raw_gyro = VZero
    /\ gyro_filter = FilterInit
    /\ notch_filter = [n \in Notches |-> FilterInit]
    /\ gyro_filtered = VZero
    /\ last_gyro_filter_hz = 0
    /\ new_gyro_data = FALSE
    /\ gyro = VZero
    /\ gyro_healthy = FALSE
    /\ delta_angle = VZero
    /\ delta_angle_dt = 0
    /\ delta_angle_valid = FALSE
    /\ sample_accel_count = 0
    /\ sample_accel_start_us = 0
    /\ accel_raw_sample_rates = accel_rate
    /\ accel_last_sample_us = 0
    /\ delta_velocity_acc = VZero
    /\ delta_velocity_acc_dt = 0
    /\ accel_filter = FilterInit
    /\ accel_filtered = VZero
    /\ last_accel_filter_hz = 0
    /\ new_accel_data = FALSE
    /\ accel = VZero
    /\ accel_healthy = FALSE
    /\ delta_velocity = VZero
    /\ delta_velocity_dt = 0
    /\ delta_velocity_valid = FALSE
    /\ temperature = 0
    /\ is_primary \in primary_flags
    /\ last_primary_update_us = 0
    /\ p_pc = "idle"
    /\ p_sample = VZero
    /\ p_sample_us = 0
    /\ p_dt = 0
    /\ p_last_sample_us = 0
    /\ p_delta_angle = VZero
    /\ p_delta_coning = VZero
    /\ p_acc_read = VZero
    /\ p_input = VZero
    /\ p_cal = FALSE
    /\ c_pc = "idle"
    /\ n_samples = 0
    /\ last_call = "none"
    /\ gyro_given = {}
    /\ set_primary_calls = 0
    /\ set_primary_arg = FALSE
    /\ unlocked_writes = {}
    /\ gyro_folded_dt = 0
    /\ accel_folded_dt = 0
    /\ gyro_pending_dt = 0
    /\ accel_pending_dt = 0
    /\ gyro_filter_failed = FALSE
    /\ accel_filter_failed = FALSE

\* the backend as constructed, its sensors registered at 50 Hz
Init == InitWith(50000, 50000, {TRUE})

\* ----------------------------------------------------------------- helpers
\* has_been_killed(instance)
has_been_killed == killed

\* a notify call that lacks the check
NotifyReturnsAtOnce_Never == FALSE

\* if (has_been_killed(instance)) { return; } at the top of each notify call
NotifyReturnsAtOnce == has_been_killed

\* the fields among `fields` that a thread writes without holding _sem
Unlocked(holder, fields) == IF sem = holder THEN {} ELSE fields

\* locals of the producer when no notify call is in progress
ProducerIdle ==
    /\ p_pc' = "idle"
    /\ p_sample' = VZero
    /\ p_sample_us' = 0
    /\ p_dt' = 0
    /\ p_last_sample_us' = 0
    /\ p_delta_angle' = VZero
    /\ p_delta_coning' = VZero
    /\ p_acc_read' = VZero
    /\ p_input' = VZero
    /\ p_cal' = FALSE

\* The producer reads _delta_angle_acc for the coning term before it takes
\* _sem.  While the consumer is inside update_gyro and about to publish, that
\* read races with the zeroing of the accumulator: each component is the old
\* value or zero.
RacyAccRead ==
    IF c_pc = "update_gyro_cs" /\ new_gyro_data /\ ~has_been_killed
    THEN {<<a, b, c>> : a \in {delta_angle_acc[1], 0},
                        b \in {delta_angle_acc[2], 0},
                        c \in {delta_angle_acc[3], 0}}
    ELSE {delta_angle_acc}

\* ------------------------------------------------------ producer: gyro raw
\* _notify_new_gyro_raw_sample up to WITH_SEMAPHORE: the killed guard, the rate
\* update, dt, the last-sample time, delta angle and coning correction
GyroRawBegin(g, sample_us, soft_armed) ==
    /\ p_pc = "idle"
    /\ n_samples < MaxSamples
    /\ n_samples' = n_samples + 1
    /\ last_call' = "gyro_raw"
    /\ gyro_given' = gyro_given \cup {[call |-> "gyro_raw", value |-> g]}
    /\ UNCHANGED <<now_us, envVars, sem, accelVars, temperature, primaryVars, c_pc,
                   gyroAccum, gyroFilt, new_gyro_data, gyroPub, gyroHist>>
    /\ IF NotifyReturnsAtOnce
       THEN UNCHANGED <<gyroTiming, gyro_last_sample_us, p_pc, prodLocals, unlocked_writes>>
       ELSE LET r == UpdateSensorRate(sample_gyro_count, sample_gyro_start_us,
                                      gyro_raw_sample_rates, now_us,
                                      sensors_converging(now_us, soft_armed))
                use_ts == sample_us # 0 /\ gyro_last_sample_us # 0
            IN  /\ sample_gyro_count' = r.count
                /\ sample_gyro_start_us' = r.start_us
                /\ gyro_raw_sample_rates' = r.rate_hz
                /\ IF ~use_ts /\ RateTooLow(r.rate_hz)
                   THEN UNCHANGED <<gyro_last_sample_us, p_pc, prodLocals, unlocked_writes>>
                   ELSE LET dt == IF use_ts
                                  THEN ElapsedUs(sample_us, gyro_last_sample_us)
                                  ELSE RateDt(r.rate_hz)
                            da == TrapezoidDelta(g, last_raw_gyro, dt)
                        IN  \E acc_read \in RacyAccRead :
                            /\ gyro_last_sample_us' = IF use_ts THEN sample_us ELSE now_us
                            /\ p_sample_us' = IF use_ts THEN sample_us ELSE now_us
                            /\ p_last_sample_us' = gyro_last_sample_us
                            /\ p_sample' = g
                            /\ p_input' = g
                            /\ p_cal' = FALSE
                            /\ p_dt' = dt
                            /\ p_delta_angle' = da
                            /\ p_acc_read' = acc_read
                            /\ p_delta_coning' = ConingCorrection(acc_read, last_delta_angle, da)
                            /\ p_pc' = "gyro_raw_wait"
                            /\ unlocked_writes' =
                                   unlocked_writes \cup Unlocked("producer", {"last_sample_us"})

\* ---------------------------------------------------- producer: delta angle
\* _notify_new_delta_angle up to WITH_SEMAPHORE
DeltaAngleBegin(dangle, calibrating_gyro, soft_armed) ==
    /\ p_pc = "idle"
    /\ n_samples < MaxSamples
    /\ n_samples' = n_samples + 1
    /\ last_call' = "delta_angle"
    /\ gyro_given' = gyro_given \cup {[call |-> "delta_angle", value |-> dangle]}
    /\ UNCHANGED <<now_us, envVars, sem, accelVars, temperature, primaryVars, c_pc,
                   gyroAccum, gyroFilt, new_gyro_data, gyroPub, gyroHist>>
    /\ IF NotifyReturnsAtOnce
       THEN UNCHANGED <<gyroTiming, gyro_last_sample_us, p_pc, prodLocals, unlocked_writes>>
       ELSE LET r == UpdateSensorRate(sample_gyro_count, sample_gyro_start_us,
                                      gyro_raw_sample_rates, now_us,
                                      sensors_converging(now_us, soft_armed))
            IN  /\ sample_gyro_count' = r.count
                /\ sample_gyro_start_us' = r.start_us
                /\ gyro_raw_sample_rates' = r.rate_hz
                /\ IF RateTooLow(r.rate_hz)
                   THEN UNCHANGED <<gyro_last_sample_us, p_pc, prodLocals, unlocked_writes>>
                   ELSE LET dt == RateDt(r.rate_hz)
                            g == DeltaAngleRate(dangle, dt, calibrating_gyro)
                            da == DeltaFromRate(g, dt)
                        IN  \E acc_read \in RacyAccRead :
                            /\ gyro_last_sample_us' = now_us
                            /\ p_sample_us' = now_us
                            /\ p_last_sample_us' = gyro_last_sample_us
                            /\ p_sample' = g
                            /\ p_input' = dangle
                            /\ p_cal' = calibrating_gyro
                            /\ p_dt' = dt
                            /\ p_delta_angle' = da
                            /\ p_acc_read' = acc_read
                            /\ p_delta_coning' = ConingCorrection(acc_read, last_delta_angle, da)
                            /\ p_pc' = "delta_angle_wait"
                            /\ unlocked_writes' =
                                   unlocked_writes \cup Unlocked("producer", {"last_sample_us"})

\* a notify call that enters its block without taking _sem
ProducerAcquire_NoLock ==
    /\ p_pc \in {"gyro_raw_wait", "delta_angle_wait", "accel_raw_wait", "delta_velocity_wait"}
    /\ sem' = sem
    /\ p_pc' = CASE p_pc = "gyro_raw_wait" -> "gyro_raw_cs"
                 [] p_pc = "delta_angle_wait" -> "delta_angle_cs"
                 [] p_pc = "accel_raw_wait" -> "accel_raw_cs"
                 [] p_pc = "delta_velocity_wait" -> "delta_velocity_cs"
    /\ UNCHANGED <<now_us, envVars, gyroVars, accelVars, temperature, primaryVars,
                   prodLocals, c_pc, callHist, unlocked_writes>>

\* WITH_SEMAPHORE(_sem) in a notify call
ProducerAcquire ==
    /\ p_pc \in {"gyro_raw_wait", "delta_angle_wait", "accel_raw_wait", "delta_velocity_wait"}
    /\ sem = "free"
    /\ sem' = "producer"
    /\ p_pc' = CASE p_pc = "gyro_raw_wait" -> "gyro_raw_cs"
                 [] p_pc = "delta_angle_wait" -> "delta_angle_cs"
                 [] p_pc = "accel_raw_wait" -> "accel_raw_cs"
                 [] p_pc = "delta_velocity_wait" -> "delta_velocity_cs"
    /\ UNCHANGED <<now_us, envVars, gyroVars, accelVars, temperature, primaryVars,
                   prodLocals, c_pc, callHist, unlocked_writes>>

\* a block under WITH_SEMAPHORE that ends with _sem still held
ReleaseSem_Held(holder) == sem

\* the end of a block under WITH_SEMAPHORE: _sem is given back
ReleaseSem(holder) == IF sem = holder THEN "free" ELSE sem

\* the block under WITH_SEMAPHORE of the two gyro notify calls: stale reset,
\* accumulate, cache, filter, mark new data; the semaphore is released at its end
GyroCritical(from_pc, to_pc, store) ==
    /\ p_pc = from_pc
    /\ LET stale == IsStale(now_us, p_last_sample_us)
           r == IntegrateAngle(delta_angle_acc, delta_angle_acc_dt, p_dt,
                               p_delta_angle, p_delta_coning, stale)
           f == apply_gyro_filters(p_sample, gyro_filter, notch_filter,
                                   gyro_filtered, imu_primary, store, notch_enabled)
       IN  /\ delta_angle_acc' = r.acc
           /\ delta_angle_acc_dt' = r.acc_dt
           /\ last_delta_angle' = r.last_delta
           /\ last_raw_gyro' = p_sample
           /\ gyro_filter' = f.lpf
           /\ notch_filter' = f.notch
           /\ gyro_filtered' = f.filtered
           /\ gyro_filter_failed' = f.failed
           /\ gyro_folded_dt' = (IF stale THEN 0 ELSE gyro_folded_dt) + r.dt
           /\ gyro_pending_dt' =
                  (IF stale THEN gyro_pending_dt - delta_angle_acc_dt ELSE gyro_pending_dt) + r.dt
    /\ new_gyro_data' = TRUE
    /\ unlocked_writes' = unlocked_writes \cup
           Unlocked("producer", {"delta_value_acc", "delta_time_acc", "last_delta_value",
                                 "last_raw_value", "FilterState", "new_data"})
    /\ sem' = ReleaseSem("producer")
    /\ p_pc' = to_pc
    /\ UNCHANGED <<now_us, envVars, gyroTiming, gyro_last_sample_us, last_gyro_filter_hz,
                   gyroPub, accelVars, temperature, primaryVars,
                   prodLocals, c_pc, callHist>>

GyroRawCritical(store) == GyroCritical("gyro_raw_cs", "gyro_raw_tap", store)

DeltaAngleCritical(store) == GyroCritical("delta_angle_cs", "delta_angle_tap", store)

\* update_primary
update_primary ==
    LET is_new_primary == (gyro_instance = imu_primary)
    IN  IF PrimaryNotifies(is_primary, is_new_primary, last_primary_update_us, now_us)
        THEN /\ set_primary_calls' = set_primary_calls + 1
             /\ set_primary_arg' = is_new_primary
             /\ is_primary' = is_new_primary
             /\ last_primary_update_us' = now_us
        ELSE UNCHANGED primaryVars

\* after the block: log_gyro_raw, which changes nothing here, and update_primary
GyroTap ==
    /\ p_pc \in {"gyro_raw_tap", "delta_angle_tap"}
    /\ update_primary
    /\ ProducerIdle
    /\ UNCHANGED <<now_us, envVars, sem, gyroVars, accelVars, temperature, c_pc,
                   callHist, unlocked_writes>>

\* ----------------------------------------------------- producer: accel raw
\* _notify_new_accel_raw_sample up to WITH_SEMAPHORE
AccelRawBegin(a, sample_us, soft_armed) ==
    /\ p_pc = "idle"
    /\ n_samples < MaxSamples
    /\ n_samples' = n_samples + 1
    /\ last_call' = "accel_raw"
    /\ UNCHANGED gyro_given
    /\ UNCHANGED <<now_us, envVars, sem, gyroVars, temperature, primaryVars, c_pc,
                   accelAccum, accelFilt, new_accel_data, accelPub, accelHist,
                   p_delta_angle, p_delta_coning, p_acc_read>>
    /\ IF NotifyReturnsAtOnce
       THEN UNCHANGED <<accelTiming, accel_last_sample_us, p_pc, p_sample, p_sample_us,
                        p_dt, p_last_sample_us, p_input, p_cal, unlocked_writes>>
       ELSE LET r == UpdateSensorRate(sample_accel_count, sample_accel_start_us,
                                      accel_raw_sample_rates, now_us,
                                      sensors_converging(now_us, soft_armed))
                use_ts == sample_us # 0 /\ accel_last_sample_us # 0
            IN  /\ sample_accel_count' = r.count
                /\ sample_accel_start_us' = r.start_us
                /\ accel_raw_sample_rates' = r.rate_hz
                /\ IF ~use_ts /\ RateTooLow(r.rate_hz)
                   THEN UNCHANGED <<accel_last_sample_us, p_pc, p_sample, p_sample_us,
                                    p_dt, p_last_sample_us, p_input, p_cal, unlocked_writes>>
                   ELSE /\ accel_last_sample_us' = IF use_ts THEN sample_us ELSE now_us
                        /\ p_sample_us' = IF use_ts THEN sample_us ELSE now_us
                        /\ p_last_sample_us' = accel_last_sample_us
                        /\ p_sample' = a
                        /\ p_input' = a
                        /\ p_cal' = FALSE
                        /\ p_dt' = IF use_ts
                                   THEN ElapsedUs(sample_us, accel_last_sample_us)
                                   ELSE RateDt(r.rate_hz)
                        /\ p_pc' = "accel_raw_wait"
                        /\ unlocked_writes' =
                               unlocked_writes \cup Unlocked("producer", {"last_sample_us"})

\* ------------------------------------------------- producer: delta velocity
\* _notify_new_delta_velocity up to WITH_SEMAPHORE
DeltaVelocityBegin(dvel, calibrating_accel, acal_running, soft_armed) ==
    /\ p_pc = "idle"
    /\ n_samples < MaxSamples
    /\ n_samples' = n_samples + 1
    /\ last_call' = "delta_velocity"
    /\ UNCHANGED gyro_given
    /\ UNCHANGED <<now_us, envVars, sem, gyroVars, temperature, primaryVars, c_pc,
                   accelAccum, accelFilt, new_accel_data, accelPub, accelHist,
                   p_delta_angle, p_delta_coning, p_acc_read>>
    /\ IF NotifyReturnsAtOnce
       THEN UNCHANGED <<accelTiming, accel_last_sample_us, p_pc, p_sample, p_sample_us,
                        p_dt, p_last_sample_us, p_input, p_cal, unlocked_writes>>
       ELSE LET r == UpdateSensorRate(sample_accel_count, sample_accel_start_us,
                                      accel_raw_sample_rates, now_us,
                                      sensors_converging(now_us, soft_armed))
            IN  /\ sample_accel_count' = r.count
                /\ sample_accel_start_us' = r.start_us
                /\ accel_raw_sample_rates' = r.rate_hz
                /\ IF RateTooLow(r.rate_hz)
                   THEN UNCHANGED <<accel_last_sample_us, p_pc, p_sample, p_sample_us,
                                    p_dt, p_last_sample_us, p_input, p_cal, unlocked_writes>>
                   ELSE LET dt == RateDt(r.rate_hz)
                        IN  /\ accel_last_sample_us' = now_us
                            /\ p_sample_us' = now_us
                            /\ p_last_sample_us' = accel_last_sample_us
                            /\ p_sample' = DeltaVelocityAccel(dvel, dt, calibrating_accel,
                                                              acal_running)
                            /\ p_input' = dvel
                            /\ p_cal' = (calibrating_accel \/ acal_running)
                            /\ p_dt' = dt
                            /\ p_pc' = "delta_velocity_wait"
                            /\ unlocked_writes' =
                                   unlocked_writes \cup Unlocked("producer", {"last_sample_us"})

\* the block under WITH_SEMAPHORE of the two accel notify calls
AccelCritical(from_pc, to_pc) ==
    /\ p_pc = from_pc
    /\ LET stale == IsStale(now_us, p_last_sample_us)
           r == IntegrateVelocity(delta_velocity_acc, delta_velocity_acc_dt, p_dt,
                                  p_sample, stale)
           f == apply_accel_filter(p_sample, accel_filter)
       IN  /\ delta_velocity_acc' = r.acc
           /\ delta_velocity_acc_dt' = r.acc_dt
           /\ accel_filter' = f.lpf
           /\ accel_filtered' = f.filtered
           /\ accel_filter_failed' = f.failed
           /\ accel_folded_dt' = (IF stale THEN 0 ELSE accel_folded_dt) + r.dt
           /\ accel_pending_dt' =
                  (IF stale THEN accel_pending_dt - delta_velocity_acc_dt
                   ELSE accel_pending_dt) + r.dt
    /\ new_accel_data' = TRUE
    /\ unlocked_writes' = unlocked_writes \cup
           Unlocked("producer", {"delta_value_acc", "delta_time_acc", "FilterState", "new_data"})
    /\ sem' = ReleaseSem("producer")
    /\ p_pc' = to_pc
    /\ UNCHANGED <<now_us, envVars, accelTiming, accel_last_sample_us, last_accel_filter_hz,
                   accelPub, gyroVars, temperature, primaryVars,
                   prodLocals, c_pc, callHist>>

AccelRawCritical == AccelCritical("accel_raw_cs", "accel_raw_tap")

DeltaVelocityCritical == AccelCritical("delta_velocity_cs", "delta_velocity_tap")

\* the end of an accel notify call marking the published reading healthy
AccelTap_MarksHealthy ==
    /\ p_pc \in {"accel_raw_tap", "delta_velocity_tap"}
    /\ ProducerIdle
    /\ accel_healthy' = TRUE
    /\ UNCHANGED <<now_us, envVars, sem, gyroVars, accelTiming, accel_last_sample_us,
                   accelAccum, accelFilt, new_accel_data, accel, delta_velocity,
                   delta_velocity_dt, delta_velocity_valid, accelHist, temperature,
                   primaryVars, c_pc, callHist, unlocked_writes>>

\* after the block: log_accel_raw, which changes nothing here
AccelTap ==
    /\ p_pc \in {"accel_raw_tap", "delta_velocity_tap"}
    /\ ProducerIdle
    /\ UNCHANGED <<now_us, envVars, sem, gyroVars, accelVars, temperature, primaryVars,
                   c_pc, callHist, unlocked_writes>>

\* notify_gyro_fifo_reset / notify_accel_fifo_reset, called by the driver
GyroFifoReset ==
    /\ p_pc = "idle"
    /\ sample_gyro_count' = 0
    /\ sample_gyro_start_us' = 0
    /\ UNCHANGED <<now_us, envVars, sem, gyro_raw_sample_rates, gyro_last_sample_us,
                   gyroAccum, gyroFilt, new_gyro_data, gyroPub, gyroHist, accelVars,
                   temperature, primaryVars, p_pc, prodLocals, c_pc, callHist,
                   unlocked_writes>>

AccelFifoReset ==
    /\ p_pc = "idle"
    /\ sample_accel_count' = 0
    /\ sample_accel_start_us' = 0
    /\ UNCHANGED <<now_us, envVars, sem, accel_raw_sample_rates, accel_last_sample_us,
                   accelAccum, accelFilt, new_accel_data, accelPub, accelHist, gyroVars,
                   temperature, primaryVars, p_pc, prodLocals, c_pc, callHist,
                   unlocked_writes>>

\* _publish_temperature, called by the driver without _sem
PublishTemperature(t) ==
    /\ p_pc = "idle"
    /\ IF has_been_killed
       THEN UNCHANGED <<temperature, unlocked_writes>>
       ELSE /\ temperature' = t
            /\ unlocked_writes' = unlocked_writes \cup Unlocked("producer", {"temperature"})
    /\ UNCHANGED <<now_us, envVars, sem, gyroVars, accelVars, primaryVars, p_pc,
                   prodLocals, c_pc, callHist>>

\* ---------------------------------------------------------------- consumer
\* WITH_SEMAPHORE(_sem) at the top of update_gyro / update_accel
UpdateGyroAcquire ==
    /\ c_pc = "idle"
    /\ sem = "free"
    /\ sem' = "consumer"
    /\ c_pc' = "update_gyro_cs"
    /\ UNCHANGED <<now_us, envVars, gyroVars, accelVars, temperature, primaryVars,
                   p_pc, prodLocals, callHist, unlocked_writes>>

UpdateAccelAcquire ==
    /\ c_pc = "idle"
    /\ sem = "free"
    /\ sem' = "consumer"
    /\ c_pc' = "update_accel_cs"
    /\ UNCHANGED <<now_us, envVars, gyroVars, accelVars, temperature, primaryVars,
                   p_pc, prodLocals, callHist, unlocked_writes>>

\* update_gyro_filters retuning only while the sensors converge
update_gyro_filters_ConvergingOnly(lpf, last_hz, target_hz, converging) ==
    IF converging
    THEN [lpf |-> FilterSetCutoff(lpf, target_hz), last_hz |-> target_hz]
    ELSE [lpf |-> lpf, last_hz |-> last_hz]

\* update_gyro_filters: the low pass filter and the last-applied cutoff after it
update_gyro_filters(lpf, last_hz, target_hz, converging) ==
    IF last_hz # target_hz \/ converging
    THEN [lpf |-> FilterSetCutoff(lpf, target_hz), last_hz |-> target_hz]
    ELSE [lpf |-> lpf, last_hz |-> last_hz]

\* update_accel_filters
update_accel_filters(lpf, last_hz, target_hz) ==
    IF last_hz # target_hz
    THEN [lpf |-> FilterSetCutoff(lpf, target_hz), last_hz |-> target_hz]
    ELSE [lpf |-> lpf, last_hz |-> last_hz]

\* an update call publishing whether or not there is new data
PollPublishes_Always(new_data) == TRUE

\* if (_imu._new_gyro_data[instance]) / if (_imu._new_accel_data[instance])
PollPublishes(new_data) == new_data

\* the body of update_gyro under _sem
UpdateGyro(soft_armed) ==
    /\ c_pc = "update_gyro_cs"
    /\ IF has_been_killed
       THEN UNCHANGED <<gyroAccum, gyroFilt, new_gyro_data, gyroPub, gyroHist, unlocked_writes>>
       ELSE LET pub == publish_gyro(gyro_filtered, delta_angle_acc, delta_angle_acc_dt)
                ft == update_gyro_filters(gyro_filter, last_gyro_filter_hz, gyro_filter_cutoff,
                                          sensors_converging(now_us, soft_armed))
            IN  /\ IF PollPublishes(new_gyro_data)
                   THEN /\ gyro' = pub.gyro
                        /\ gyro_healthy' = pub.healthy
                        /\ delta_angle' = pub.delta
                        /\ delta_angle_dt' = pub.delta_dt
                        /\ delta_angle_valid' = pub.valid
                        /\ delta_angle_acc' = pub.acc
                        /\ delta_angle_acc_dt' = pub.acc_dt
                        /\ new_gyro_data' = FALSE
                        /\ gyro_folded_dt' = 0
                        /\ gyro_pending_dt' = gyro_pending_dt - pub.delta_dt
                   ELSE UNCHANGED <<gyroPub, delta_angle_acc, delta_angle_acc_dt,
                                    new_gyro_data, gyro_folded_dt, gyro_pending_dt>>
                /\ gyro_filter' = ft.lpf
                /\ last_gyro_filter_hz' = ft.last_hz
                /\ UNCHANGED <<last_delta_angle, last_raw_gyro, notch_filter, gyro_filtered,
                               gyro_filter_failed>>
                /\ unlocked_writes' = unlocked_writes \cup
                       Unlocked("consumer",
                                (IF new_gyro_data
                                 THEN {"Published", "delta_value_acc", "delta_time_acc", "new_data"}
                                 ELSE {})
                                \cup (IF ft.lpf # gyro_filter THEN {"FilterState"} ELSE {}))
    /\ sem' = IF sem = "consumer" THEN "free" ELSE sem
    /\ c_pc' = "idle"
    /\ UNCHANGED <<now_us, envVars, gyroTiming, gyro_last_sample_us, accelVars, temperature,
                   primaryVars, p_pc, prodLocals, callHist>>

\* the body of update_accel under _sem
UpdateAccel ==
    /\ c_pc = "update_accel_cs"
    /\ IF has_been_killed
       THEN UNCHANGED <<accelAccum, accelFilt, new_accel_data, accelPub, accelHist,
                        unlocked_writes>>
       ELSE LET pub == publish_accel(accel_filtered, delta_velocity_acc, delta_velocity_acc_dt)
                ft == update_accel_filters(accel_filter, last_accel_filter_hz,
                                           accel_filter_cutoff)
            IN  /\ IF PollPublishes(new_accel_data)
                   THEN /\ accel' = pub.accel
                        /\ accel_healthy' = pub.healthy
                        /\ delta_velocity' = pub.delta
                        /\ delta_velocity_dt' = pub.delta_dt
                        /\ delta_velocity_valid' = pub.valid
                        /\ delta_velocity_acc' = pub.acc
                        /\ delta_velocity_acc_dt' = pub.acc_dt
                        /\ new_accel_data' = FALSE
                        /\ accel_folded_dt' = 0
                        /\ accel_pending_dt' = accel_pending_dt - pub.delta_dt
                   ELSE UNCHANGED <<accelPub, accelAccum, new_accel_data, accel_folded_dt,
                                    accel_pending_dt>>
                /\ accel_filter' = ft.lpf
                /\ last_accel_filter_hz' = ft.last_hz
                /\ UNCHANGED <<accel_filtered, accel_filter_failed>>
                /\ unlocked_writes' = unlocked_writes \cup
                       Unlocked("consumer",
                                (IF new_accel_data
                                 THEN {"Published", "delta_value_acc", "delta_time_acc", "new_data"}
                                 ELSE {})
                                \cup (IF ft.lpf # accel_filter THEN {"FilterState"} ELSE {}))
    /\ sem' = IF sem = "consumer" THEN "free" ELSE sem
    /\ c_pc' = "idle"
    /\ UNCHANGED <<now_us, envVars, accelTiming, accel_last_sample_us, gyroVars, temperature,
                   primaryVars, p_pc, prodLocals, callHist>>

\* ------------------------------------------------------------- environment
\* time passes, up to max_us.  A notify or update call takes microseconds and
\* the steps of time are tens of milliseconds: time passes between calls.
Tick(d, max_us) ==
    /\ p_pc = "idle"
    /\ c_pc = "idle"
    /\ now_us + d <= max_us
    /\ now_us' = now_us + d
    /\ UNCHANGED <<envVars, sem, gyroVars, accelVars, temperature, primaryVars,
                   p_pc, prodLocals, c_pc, callHist, unlocked_writes>>

\* the front end kills the instance
Kill ==
    /\ ~killed
    /\ killed' = TRUE
    /\ UNCHANGED <<now_us, imu_primary, primary_changes, gyro_filter_cutoff,
                   accel_filter_cutoff, notch_enabled, sem, gyroVars, accelVars, temperature,
                   primaryVars, p_pc, prodLocals, c_pc, callHist, unlocked_writes>>

\* the front end selects another primary instance
ChangePrimary ==
    /\ primary_changes < MaxPrimaryChanges
    /\ primary_changes' = primary_changes + 1
    /\ imu_primary' = 1 - imu_primary
    /\ UNCHANGED <<now_us, killed, gyro_filter_cutoff, accel_filter_cutoff, notch_enabled,
                   sem, gyroVars, accelVars, temperature, primaryVars, p_pc, prodLocals,
                   c_pc, callHist, unlocked_writes>>

\* _update_sensor_rate on the gyro fields, as each notify call of a sample
\* stream makes it, the next sample of the stream coming period_us later
UpdateSensorRateCall(period_us, max_us) ==
    /\ p_pc = "idle"
    /\ c_pc = "idle"
    /\ now_us + period_us <= max_us
    /\ LET r == UpdateSensorRate(sample_gyro_count, sample_gyro_start_us,
                                 gyro_raw_sample_rates, now_us,
                                 sensors_converging(now_us, FALSE))
       IN  /\ sample_gyro_count' = r.count
           /\ sample_gyro_start_us' = r.start_us
           /\ gyro_raw_sample_rates' = r.rate_hz
    /\ now_us' = now_us + period_us
    /\ UNCHANGED <<envVars, sem, gyro_last_sample_us, gyroAccum, gyroFilt, new_gyro_data,
                   gyroPub, gyroHist, accelVars, temperature, primaryVars, p_pc,
                   prodLocals, c_pc, callHist, unlocked_writes>>

\* the configured filter cutoffs change
SetGyroFilterCutoff(hz) ==
    /\ hz # gyro_filter_cutoff
    /\ gyro_filter_cutoff' = hz
    /\ UNCHANGED <<now_us, killed, imu_primary, primary_changes, accel_filter_cutoff,
                   notch_enabled, sem,
                   gyroVars, accelVars, temperature, primaryVars, p_pc, prodLocals,
                   c_pc, callHist, unlocked_writes>>

SetAccelFilterCutoff(hz) ==
    /\ hz # accel_filter_cutoff
    /\ accel_filter_cutoff' = hz
    /\ UNCHANGED <<now_us, killed, imu_primary, primary_changes, gyro_filter_cutoff,
                   notch_enabled, sem,
                   gyroVars, accelVars, temperature, primaryVars, p_pc, prodLocals,
                   c_pc, callHist, unlocked_writes>>

\* the enable parameter of harmonic notch n is changed
SetNotchEnabled(n, e) ==
    /\ notch_enabled[n] # e
    /\ notch_enabled' = [notch_enabled EXCEPT ![n] = e]
    /\ UNCHANGED <<now_us, killed, imu_primary, primary_changes, gyro_filter_cutoff,
                   accel_filter_cutoff, sem, gyroVars, accelVars, temperature,
                   primaryVars, p_pc, prodLocals, c_pc, callHist, unlocked_writes>>

\* ------------------------------------------------------------ specification
\* Every operation of the backend, each with one input
Next ==
    \/ \E t \in SampleTimes : GyroRawBegin(<<10, 0, 0>>, t, FALSE)
    \/ DeltaAngleBegin(<<400, 0, 0>>, FALSE, FALSE)
    \/ AccelRawBegin(<<0, 0, 10>>, now_us, FALSE)
    \/ DeltaVelocityBegin(<<0, 0, 200>>, FALSE, FALSE, FALSE)
    \/ ProducerAcquire
    \/ GyroRawCritical(TRUE)
    \/ DeltaAngleCritical(TRUE)
    \/ AccelRawCritical
    \/ DeltaVelocityCritical
    \/ GyroTap
    \/ AccelTap
    \/ GyroFifoReset
    \/ AccelFifoReset
    \/ PublishTemperature(25)
    \/ UpdateGyroAcquire
    \/ UpdateAccelAcquire
    \/ UpdateGyro(FALSE)
    \/ UpdateAccel
    \/ Tick(120000, MaxTimeUs)
    \/ Kill
    \/ ChangePrimary
    \/ SetGyroFilterCutoff(40)
    \/ SetAccelFilterCutoff(40)

Spec == Init /\ [][Next]_vars

\* The data path: the four notify calls and the two update calls, with
\* samples 20 ms apart or after a gap of 120 ms
NextIntegrate ==
    \/ \E t \in SampleTimes : GyroRawBegin(<<10, 0, 0>>, t, FALSE)
    \/ DeltaAngleBegin(<<400, 0, 0>>, FALSE, FALSE)
    \/ AccelRawBegin(<<0, 0, 10>>, now_us, FALSE)
    \/ DeltaVelocityBegin(<<0, 0, 200>>, FALSE, FALSE, FALSE)
    \/ ProducerAcquire
    \/ GyroRawCritical(TRUE)
    \/ DeltaAngleCritical(TRUE)
    \/ AccelRawCritical
    \/ DeltaVelocityCritical
    \/ GyroTap
    \/ AccelTap
    \/ UpdateGyroAcquire
    \/ UpdateAccelAcquire
    \/ UpdateGyro(FALSE)
    \/ UpdateAccel
    \/ \E d \in TickChoices : Tick(d, MaxTimeUs)

SpecIntegrate == Init /\ [][NextIntegrate]_vars

\* The raw notify calls with sample timestamps that need not follow the
\* arrival clock, and the update calls
NextDt ==
    \/ \E t \in SkewedSampleTimes : GyroRawBegin(<<10, 0, 0>>, t, FALSE)
    \/ \E t \in SkewedSampleTimes : AccelRawBegin(<<0, 0, 10>>, t, FALSE)
    \/ ProducerAcquire
    \/ GyroRawCritical(TRUE)
    \/ AccelRawCritical
    \/ GyroTap
    \/ AccelTap
    \/ UpdateGyroAcquire
    \/ UpdateAccelAcquire
    \/ UpdateGyro(FALSE)
    \/ UpdateAccel
    \/ \E d \in TickChoices : Tick(d, MaxTimeUs)

SpecDt == Init /\ [][NextDt]_vars

\* The correction stage: the four notify calls in every calibration state
NextCorrect ==
    \/ GyroRawBegin(<<10, 0, 0>>, 0, FALSE)
    \/ \E cal \in BOOLEAN : DeltaAngleBegin(<<400, 800, 0>>, cal, FALSE)
    \/ AccelRawBegin(<<0, 0, 10>>, 0, FALSE)
    \/ \E cal, running \in BOOLEAN : DeltaVelocityBegin(<<200, 400, 600>>, cal, running, FALSE)
    \/ ProducerAcquire
    \/ GyroRawCritical(TRUE)
    \/ DeltaAngleCritical(TRUE)
    \/ AccelRawCritical
    \/ DeltaVelocityCritical
    \/ GyroTap
    \/ AccelTap
    \/ Tick(20000, MaxTimeUs)

SpecCorrect == Init /\ [][NextCorrect]_vars

\* The rate estimator: sensors registered at a rate below, just above or well
\* above 40 Hz, notify calls at once, exactly a second or 1.01 s after the
\* first, and fifo resets
NextRate ==
    \/ GyroRawBegin(<<10, 0, 0>>, 0, FALSE)
    \/ \E armed \in BOOLEAN : DeltaAngleBegin(<<400, 0, 0>>, FALSE, armed)
    \/ AccelRawBegin(<<0, 0, 10>>, 0, FALSE)
    \/ DeltaVelocityBegin(<<0, 0, 200>>, FALSE, FALSE, FALSE)
    \/ ProducerAcquire
    \/ GyroRawCritical(TRUE)
    \/ DeltaAngleCritical(TRUE)
    \/ AccelRawCritical
    \/ DeltaVelocityCritical
    \/ GyroTap
    \/ AccelTap
    \/ GyroFifoReset
    \/ AccelFifoReset
    \/ \E d \in {1000000, 1010000} : Tick(d, MaxRateTimeUs)

SpecRate == (\E r \in RateChoices : InitWith(r, r, {TRUE})) /\ [][NextRate]_vars

\* The rate estimator under a stream of samples at a constant true rate of
\* 50 Hz, from an estimate that is too low, right or too high
StreamPeriodUs == 20000
StreamInitRates == {30000, 50000, 100000}

NextStream == UpdateSensorRateCall(StreamPeriodUs, MaxStreamTimeUs)

\* The notch cascade: finite and non-finite gyro samples, the front end
\* changing the primary, and notches 1 and 3 enabled and disabled between
\* samples
NextNotch ==
    \/ \E g \in {<<10, 0, 0>>, <<NaN, 0, 0>>} : GyroRawBegin(g, 0, FALSE)
    \/ ProducerAcquire
    \/ GyroRawCritical(TRUE)
    \/ GyroTap
    \/ ChangePrimary
    \/ \E n \in {1, 3}, e \in BOOLEAN : SetNotchEnabled(n, e)
    \/ Tick(20000, MaxTimeUs)

SpecNotch == Init /\ [][NextNotch]_vars

\* Coning: raw gyro samples of two rates that are not parallel, at 50 Hz,
\* with the consumer publishing at any point
ConingRates == {<<10, 20, 0>>, <<20, -10, 0>>}

NextConing ==
    \/ \E g \in ConingRates : GyroRawBegin(g, 0, FALSE)
    \/ ProducerAcquire
    \/ GyroRawCritical(TRUE)
    \/ GyroTap
    \/ UpdateGyroAcquire
    \/ UpdateGyro(FALSE)
    \/ Tick(20000, MaxTimeUs)

SpecConing == Init /\ [][NextConing]_vars

SpecStream ==
    /\ \E r \in StreamInitRates : InitWith(r, r, {TRUE})
    /\ [][NextStream]_vars
    /\ WF_vars(NextStream)

\* The kill switch: every notify, update and publish call, and the front end
\* killing the instance at any point
NextKill ==
    \/ \E t \in SampleTimes : GyroRawBegin(<<10, 0, 0>>, t, FALSE)
    \/ DeltaAngleBegin(<<400, 0, 0>>, FALSE, FALSE)
    \/ AccelRawBegin(<<0, 0, 10>>, now_us, FALSE)
    \/ DeltaVelocityBegin(<<0, 0, 200>>, FALSE, FALSE, FALSE)
    \/ ProducerAcquire
    \/ GyroRawCritical(TRUE)
    \/ DeltaAngleCritical(TRUE)
    \/ AccelRawCritical
    \/ DeltaVelocityCritical
    \/ GyroTap
    \/ AccelTap
    \/ GyroFifoReset
    \/ AccelFifoReset
    \/ PublishTemperature(25)
    \/ UpdateGyroAcquire
    \/ UpdateAccelAcquire
    \/ UpdateGyro(FALSE)
    \/ UpdateAccel
    \/ Tick(120000, MaxTimeUs)
    \/ Kill

SpecKill == Init /\ [][NextKill]_vars

\* The lock: every operation that writes accumulator, filter or published state
NextLock ==
    \/ \E t \in SampleTimes : GyroRawBegin(<<10, 0, 0>>, t, FALSE)
    \/ DeltaAngleBegin(<<400, 0, 0>>, FALSE, FALSE)
    \/ AccelRawBegin(<<0, 0, 10>>, now_us, FALSE)
    \/ DeltaVelocityBegin(<<0, 0, 200>>, FALSE, FALSE, FALSE)
    \/ ProducerAcquire
    \/ GyroRawCritical(TRUE)
    \/ DeltaAngleCritical(TRUE)
    \/ AccelRawCritical
    \/ DeltaVelocityCritical
    \/ GyroTap
    \/ AccelTap
    \/ PublishTemperature(25)
    \/ UpdateGyroAcquire
    \/ UpdateAccelAcquire
    \/ \E armed \in BOOLEAN : UpdateGyro(armed)
    \/ UpdateAccel
    \/ Tick(120000, MaxTimeUs)
    \/ SetGyroFilterCutoff(40)
    \/ SetAccelFilterCutoff(40)

SpecLock == Init /\ [][NextLock]_vars

\* The filter fail-safe: finite and non-finite samples on every notify path,
\* with the rate loop using or not using the filtered value
NextFilter ==
    \/ \E g \in {<<10, 0, 0>>, <<NaN, 0, 0>>, <<0, Inf, 0>>} : GyroRawBegin(g, 0, FALSE)
    \/ DeltaAngleBegin(<<0, 0, NaN>>, FALSE, FALSE)
    \/ \E a \in {<<0, 0, 10>>, <<Inf, 0, 0>>} : AccelRawBegin(a, now_us, FALSE)
    \/ DeltaVelocityBegin(<<NaN, 0, 0>>, FALSE, FALSE, FALSE)
    \/ ProducerAcquire
    \/ \E store \in BOOLEAN : GyroRawCritical(store)
    \/ \E store \in BOOLEAN : DeltaAngleCritical(store)
    \/ AccelRawCritical
    \/ DeltaVelocityCritical
    \/ GyroTap
    \/ AccelTap
    \/ UpdateGyroAcquire
    \/ UpdateAccelAcquire
    \/ UpdateGyro(FALSE)
    \/ UpdateAccel
    \/ ChangePrimary
    \/ Tick(120000, MaxTimeUs)

SpecFilter == Init /\ [][NextFilter]_vars

\* The primary reconcile: gyro samples 100 ms apart or more, the front end
\* changing the primary, and a backend constructed as primary or not
NextPrimary ==
    \/ GyroRawBegin(<<10, 0, 0>>, 0, FALSE)
    \/ DeltaAngleBegin(<<400, 0, 0>>, FALSE, FALSE)
    \/ ProducerAcquire
    \/ GyroRawCritical(TRUE)
    \/ DeltaAngleCritical(TRUE)
    \/ GyroTap
    \/ ChangePrimary
    \/ Kill
    \/ \E d \in {100000, 110000} : Tick(d, MaxHeartbeatTimeUs)

SpecPrimary == InitWith(50000, 50000, BOOLEAN) /\ [][NextPrimary]_vars

\* ================================================================== claims
GyroCsPcs == {"gyro_raw_cs", "delta_angle_cs"}
GyroTapPcs == {"gyro_raw_tap", "delta_angle_tap"}
AccelCsPcs == {"accel_raw_cs", "delta_velocity_cs"}
AccelTapPcs == {"accel_raw_tap", "delta_velocity_tap"}

\* the producer has just ingested, and the consumer has not yet published, a
\* sample that came more than 100 ms after the previous sample of the instance
GyroSampleAfterGap ==
    /\ p_pc \in GyroTapPcs
    /\ p_last_sample_us # 0
    /\ now_us - p_last_sample_us > 100000
    /\ new_gyro_data

AccelSampleAfterGap ==
    /\ p_pc \in AccelTapPcs
    /\ p_last_sample_us # 0
    /\ now_us - p_last_sample_us > 100000
    /\ new_accel_data

\* the steps that run the locked block of a notify call, and update_primary
GyroCriticalStep == p_pc \in GyroCsPcs /\ p_pc' \in GyroTapPcs
GyroTapStep == p_pc \in GyroTapPcs /\ p_pc' = "idle"

\* C1, as claimed: after a sample that follows a gap of more than 100 ms,
\* on each of the four notify paths, the accumulated time equals the dt the
\* call computed for that sample.
C1_GapSampleAddsOwnDt ==
    /\ GyroSampleAfterGap => delta_angle_acc_dt = p_dt
    /\ AccelSampleAfterGap => delta_velocity_acc_dt = p_dt

\* C1, amended: after a sample that follows a gap of more than 100 ms, on
\* each of the four notify paths, the accumulated time is zero: the stale
\* reset zeroes the sample's own dt together with the accumulator.
C1_GapSampleAddsNoTime ==
    /\ GyroSampleAfterGap => delta_angle_acc_dt = 0
    /\ AccelSampleAfterGap => delta_velocity_acc_dt = 0

C1_Witness ==
    /\ GyroSampleAfterGap
    /\ p_pc = "gyro_raw_tap"
    /\ p_dt > 0
    /\ delta_angle_acc_dt = 0

\* C2: after a gyro sample that follows a gap of more than 100 ms the
\* delta-angle accumulator holds nothing computed from the accumulator or the
\* previous delta of before the gap; the sample's own delta being zeroed by
\* the reset, that leaves the zero vector.
C2_NoStaleBlend == GyroSampleAfterGap => delta_angle_acc = VZero

\* C3: the stored filtered gyro value is finite after every step, and on a
\* cycle whose filter-chain output is non-finite the filtered value keeps the
\* value of the previous cycle and the low pass and every notch of the
\* instance are reset.
C3_GyroFilterFailSafe ==
    /\ []IsFiniteV(gyro_filtered)
    /\ [][(GyroCriticalStep /\ gyro_filter_failed') =>
            /\ gyro_filtered' = gyro_filtered
            /\ ~gyro_filter'.init
            /\ \A n \in Notches : ~notch_filter'[n].init]_vars

C3_Witness ==
    /\ p_pc \in GyroTapPcs
    /\ gyro_filter_failed
    /\ ~IsFiniteV(p_sample)
    /\ gyro_filtered # VZero

\* C4: neither the stored filtered accel value nor the published accel value
\* is ever non-finite.
C4_AccelFilteredFinite == IsFiniteV(accel_filtered) /\ IsFiniteV(accel)

\* what the kill switch is claimed to freeze
KillFrozen ==
    <<gyro_raw_sample_rates, gyro_last_sample_us, gyroAccum, gyro_filtered, new_gyro_data,
      gyroPub, accel_raw_sample_rates, accel_last_sample_us, accelAccum, accel_filtered,
      new_accel_data, accelPub, temperature>>
RateWindows ==
    <<sample_gyro_count, sample_gyro_start_us, sample_accel_count, sample_accel_start_us>>

C6_HeartbeatEvery200ms ==
    (primary_changes = 0 /\ set_primary_calls >= 1)
        => ElapsedUs(now_us, last_primary_update_us) <= PRIMARY_UPDATE_TIMEOUT_US

\* C6, amended: right after every update_primary call, which runs once per
\* accepted gyro sample, the last notification is at most 200 ms old.
C6_HeartbeatOnReconcile ==
    [][GyroTapStep =>
          ElapsedUs(now_us', last_primary_update_us') <= PRIMARY_UPDATE_TIMEOUT_US]_vars

\* two notifications while the front end never changed the primary
C6_Witness ==
    /\ primary_changes = 0
    /\ set_primary_calls >= 2
    /\ last_primary_update_us = now_us

\* C7: an update_primary call notifies exactly once when the computed primary
\* flag differs from the last notified one, not at all when it is the same and
\* less than 200 ms have passed since the last notification; a notification
\* stores the notified value and the time of the call.
C7_EdgePlusTimeout ==
    [][GyroTapStep =>
          LET is_new_primary == (gyro_instance = imu_primary)
          IN  /\ is_primary # is_new_primary
                    => set_primary_calls' = set_primary_calls + 1
              /\ (/\ is_primary = is_new_primary
                  /\ ElapsedUs(now_us, last_primary_update_us) < PRIMARY_UPDATE_TIMEOUT_US)
                    => UNCHANGED primaryVars
              /\ set_primary_calls' # set_primary_calls
                    => /\ set_primary_calls' = set_primary_calls + 1
                       /\ set_primary_arg' = is_new_primary
                       /\ is_primary' = is_new_primary
                       /\ last_primary_update_us' = now_us]_vars

\* the backend was told that it is no longer primary, on the call that saw the change
C7_Witness ==
    /\ primary_changes = 1
    /\ set_primary_calls = 1
    /\ set_primary_arg = FALSE
    /\ ~is_primary
    /\ last_primary_update_us = now_us
    /\ p_pc = "idle"

\* C8, as claimed: no accumulator field (the last-sample time among them),
\* filter state or published field is written by a thread not holding _sem.
C8_AllWritesLocked ==
    unlocked_writes \cap {"delta_value_acc", "delta_time_acc", "last_raw_value",
                          "last_delta_value", "last_sample_us", "FilterState",
                          "Published"} = {}

\* C8, amended: the only fields written by a thread not holding _sem are the
\* last-sample time and the temperature; the producer's accumulate-and-filter
\* block runs only with _sem held by the producer and the consumer's publish
\* block only with _sem held by the consumer, so the two blocks are never both
\* entered.
C8_LockDiscipline ==
    /\ unlocked_writes \subseteq {"last_sample_us", "temperature"}
    /\ ~(p_pc \in GyroCsPcs \cup AccelCsPcs /\ c_pc \in {"update_gyro_cs", "update_accel_cs"})
    /\ p_pc \in GyroCsPcs \cup AccelCsPcs => sem = "producer"
    /\ c_pc \in {"update_gyro_cs", "update_accel_cs"} => sem = "consumer"

\* the producer waits for _sem while the consumer is about to publish
C8_Witness ==
    /\ sem = "consumer"
    /\ c_pc = "update_gyro_cs"
    /\ new_gyro_data
    /\ p_pc = "gyro_raw_wait"

\* C9: for gyro and accel, the accumulated time is the sum of the dt folded
\* into the delta accumulator since that accumulator was last zeroed.
C9_DtMatchesFolded ==
    /\ delta_angle_acc_dt = gyro_folded_dt
    /\ delta_velocity_acc_dt = accel_folded_dt

C9_Witness ==
    /\ delta_angle_acc_dt > 0
    /\ delta_velocity_acc_dt > 0

\* C10: an update call on a live instance with new data moves the accumulated
\* delta and dt into the published fields, marks them valid, zeroes the
\* accumulator and clears the flag; and the dt folded so far and neither
\* published nor discarded by a stale reset is exactly the accumulated dt.
C10_PublishedExactlyOnce ==
    /\ [](gyro_pending_dt = delta_angle_acc_dt /\ accel_pending_dt = delta_velocity_acc_dt)
    /\ [][(c_pc = "update_gyro_cs" /\ c_pc' = "idle" /\ ~killed /\ new_gyro_data) =>
            /\ delta_angle' = delta_angle_acc
            /\ delta_angle_dt' = delta_angle_acc_dt
            /\ delta_angle_valid'
            /\ delta_angle_acc' = VZero
            /\ delta_angle_acc_dt' = 0
            /\ ~new_gyro_data']_vars
    /\ [][(c_pc = "update_accel_cs" /\ c_pc' = "idle" /\ ~killed /\ new_accel_data) =>
            /\ delta_velocity' = delta_velocity_acc
            /\ delta_velocity_dt' = delta_velocity_acc_dt
            /\ delta_velocity_valid'
            /\ delta_velocity_acc' = VZero
            /\ delta_velocity_acc_dt' = 0
            /\ ~new_accel_data']_vars

\* a first batch was published and a second is pending
C10_Witness ==
    /\ delta_angle_valid
    /\ delta_angle_dt > 0
    /\ delta_angle_acc_dt > 0
    /\ new_gyro_data

DeltaAnglePcs == {"delta_angle_wait", "delta_angle_cs", "delta_angle_tap"}
DeltaVelocityPcs == {"delta_velocity_wait", "delta_velocity_cs", "delta_velocity_tap"}
GyroRawPcs == {"gyro_raw_wait", "gyro_raw_cs", "gyro_raw_tap"}
AccelRawPcs == {"accel_raw_wait", "accel_raw_cs", "accel_raw_tap"}

\* C11, as claimed: on the two delta paths the value that is integrated is
\* the value the call was given, as a rate, neither rotated nor corrected.
C11_DeltaPathsUncorrected ==
    /\ p_pc \in DeltaAnglePcs => p_sample = RateFromDelta(p_input, p_dt)
    /\ p_pc \in DeltaVelocityPcs => p_sample = AccelFromDelta(p_input, p_dt)

\* C11, amended: inside the notify calls the correction stage runs on the two
\* delta paths, on the rate delta / dt, before the value is integrated; the
\* two raw paths integrate the value they are given.
C11_DeltaPathsCorrected ==
    /\ p_pc \in DeltaAnglePcs
          => p_sample = rotate_and_correct_gyro(RateFromDelta(p_input, p_dt), p_cal)
    /\ p_pc \in DeltaVelocityPcs
          => p_sample = rotate_and_correct_accel(AccelFromDelta(p_input, p_dt), p_cal, FALSE)
    /\ p_pc \in GyroRawPcs \cup AccelRawPcs => p_sample = p_input

C11_Witness ==
    /\ p_pc = "delta_angle_cs"
    /\ ~p_cal
    /\ p_sample # RateFromDelta(p_input, p_dt)
    /\ p_delta_angle = DeltaFromRate(p_sample, p_dt)

\* a step that begins a delta call, dropped or not
DeltaAngleCall == n_samples' = n_samples + 1 /\ last_call' = "delta_angle"
DeltaVelocityCall == n_samples' = n_samples + 1 /\ last_call' = "delta_velocity"

\* what a dropped sample must leave alone, the rate estimator aside
GyroDropFrozen ==
    <<gyroAccum, gyroFilt, gyro_last_sample_us, new_gyro_data, gyroPub, gyro_filter_failed>>
AccelDropFrozen ==
    <<accelAccum, accelFilt, accel_last_sample_us, new_accel_data, accelPub, accel_filter_failed>>

\* C12, as claimed: a delta call made while the estimated rate is below 40 Hz
\* changes neither the accumulator, filter state, filtered value, last-sample
\* time and new-data flag nor the sample counter.
C12_LowRateCallChangesNothing ==
    [][/\ (DeltaAngleCall /\ ~killed /\ gyro_raw_sample_rates < MinRateMilliHz)
            => UNCHANGED <<GyroDropFrozen, sample_gyro_count>>
       /\ (DeltaVelocityCall /\ ~killed /\ accel_raw_sample_rates < MinRateMilliHz)
            => UNCHANGED <<AccelDropFrozen, sample_accel_count>>]_vars

\* C12, amended: a delta call first updates the rate estimator (window start,
\* sample count, estimated rate); when the estimated rate is then below 40 Hz
\* the call returns at once and leaves the accumulator, filter state,
\* filtered value, last-sample time, new-data flag and published fields
\* unchanged.
C12_LowRateCallDropsSample ==
    [][/\ (DeltaAngleCall /\ ~killed) =>
            /\ \E conv \in BOOLEAN :
                 LET r == UpdateSensorRate(sample_gyro_count, sample_gyro_start_us,
                                           gyro_raw_sample_rates, now_us, conv)
                 IN  gyroTiming' = <<r.count, r.start_us, r.rate_hz>>
            /\ gyro_raw_sample_rates' < MinRateMilliHz
                 => (p_pc' = "idle" /\ UNCHANGED <<GyroDropFrozen, AccelDropFrozen>>)
       /\ (DeltaVelocityCall /\ ~killed) =>
            /\ \E conv \in BOOLEAN :
                 LET r == UpdateSensorRate(sample_accel_count, sample_accel_start_us,
                                           accel_raw_sample_rates, now_us, conv)
                 IN  accelTiming' = <<r.count, r.start_us, r.rate_hz>>
            /\ accel_raw_sample_rates' < MinRateMilliHz
                 => (p_pc' = "idle" /\ UNCHANGED <<GyroDropFrozen, AccelDropFrozen>>)]_vars

\* a second delta-angle call was dropped at 30 Hz and was counted
C12_Witness ==
    /\ last_call = "delta_angle"
    /\ n_samples = 2
    /\ p_pc = "idle"
    /\ gyro_raw_sample_rates < MinRateMilliHz
    /\ sample_gyro_count = 1
    /\ gyro_last_sample_us = 0
    /\ ~new_gyro_data

\* The bounds the claim puts on a re-estimated rate: the old rate blended
\* with an observed rate inside the clamp, for either convergence state.
RateWithinBlend(old_hz, new_hz, constant, lower, upper) ==
    /\ new_hz >= (constant * old_hz + (100 - constant) * ((old_hz * lower) \div 100)) \div 100
    /\ new_hz <= (constant * old_hz + (100 - constant) * ((old_hz * upper) \div 100)) \div 100

\* what a step may do to one rate estimator: count, start and rate before
\* (c, s, r) and after (c2, s2, r2) a step, which is a notify call of that
\* sensor on a live instance or not
RateDiscipline(c, s, r, c2, s2, r2, is_call) ==
    /\ r2 # r =>
          /\ is_call
          /\ s # 0
          /\ ElapsedUs(now_us, s) > 1000000
          /\ c2 = 0
          /\ s2 = now_us
          /\ \/ RateWithinBlend(r, r2, 98, 95, 105)
             \/ RateWithinBlend(r, r2, 80, 50, 200)
    /\ (is_call /\ s = 0) => (r2 = r /\ s2 = now_us /\ c2 = 0)
    /\ (is_call /\ s # 0 /\ ElapsedUs(now_us, s) <= 1000000)
          => (r2 = r /\ s2 = s /\ c2 = c + 1)

GyroCall == n_samples' = n_samples + 1 /\ last_call' \in {"gyro_raw", "delta_angle"} /\ ~killed
AccelCall == n_samples' = n_samples + 1 /\ last_call' \in {"accel_raw", "delta_velocity"} /\ ~killed

StreamTrueRate == 1000000000 \div StreamPeriodUs
StreamConvergedUs == 16000000
WithinFivePercent ==
    gyro_raw_sample_rates \in ((95 * StreamTrueRate) \div 100) .. ((105 * StreamTrueRate) \div 100)

C15_PipelineShape ==
    /\ p_pc \in DeltaAnglePcs
          => LET g1 == Rotate(RateFromDelta(p_input, p_dt), gyro_orientation)
             IN  p_sample = Rotate(IF p_cal THEN g1 ELSE VSub(g1, gyro_offset),
                                   board_orientation)
    /\ p_pc \in DeltaVelocityPcs
          => LET a1 == Rotate(AccelFromDelta(p_input, p_dt), accel_orientation)
             IN  p_sample = Rotate(IF p_cal THEN a1
                                   ELSE VMulAxes(VSub(a1, accel_offset), accel_scale),
                                   board_orientation)

\* a delta-velocity sample taken while a calibration is active: rotated twice,
\* and neither offset nor scaled
C15_Witness ==
    /\ p_pc = "delta_velocity_cs"
    /\ p_cal
    /\ p_sample = Rotate(Rotate(AccelFromDelta(p_input, p_dt), accel_orientation),
                         board_orientation)
    /\ p_sample # rotate_and_correct_accel(AccelFromDelta(p_input, p_dt), FALSE, FALSE)
    /\ p_sample # AccelFromDelta(p_input, p_dt)

\* two vectors neither of which is zero or a multiple of the other
NotParallel(u, v) == VCross(u, v) # VZero

\* a raw gyro call between computing its coning term and integrating it
ConingComputed == p_pc \in {"gyro_raw_wait", "gyro_raw_cs"}

\* C16, first half: while every raw gyro sample so far had the same rate
\* vector, the coning term of each cycle is zero, wherever the publishes fall.
C16_ConstantRateNoConing ==
    (ConingComputed /\ Cardinality(gyro_given) = 1) => p_delta_coning = VZero

\* C16, second half: when the rate of this cycle is not parallel to that of
\* the cycle before and the accumulator or the previous delta is not parallel
\* to the delta of this cycle, the coning term is not zero.
C16_DirectionChangeGivesConing ==
    (/\ ConingComputed
     /\ NotParallel(last_raw_gyro, p_input)
     /\ \/ NotParallel(p_acc_read, p_delta_angle)
        \/ NotParallel(last_delta_angle, p_delta_angle))
        => p_delta_coning # VZero

\* C16, as claimed: both halves
C16_ConingZeroIffConstant ==
    /\ C16_ConstantRateNoConing
    /\ C16_DirectionChangeGivesConing

\* C17, as claimed: when the producer holds the lock and is about to add the
\* delta and the coning term to the accumulator, the accumulator is the value
\* the coning term was computed from: no publish fell in between.
C17_ConingReadIsAccumulator ==
    p_pc \in {"gyro_raw_cs", "delta_angle_cs"} => p_acc_read = delta_angle_acc

\* a step that is the locked block of an accel notify call, and a step in
\* which update_gyro publishes
AccelCriticalStep == p_pc \in AccelCsPcs /\ p_pc' \in AccelTapPcs
PublishGyroStep == c_pc = "update_gyro_cs" /\ c_pc' = "idle" /\ new_gyro_data /\ ~killed

\* every gyro call so far was a raw call with the rate (r, 0, 0)
ConstantRawStream(r) == gyro_given = {[call |-> "gyro_raw", value |-> <<r, 0, 0>>]}

\* what the locked block adds to the accumulators: delta plus coning for
\* gyro, value * dt for accel; after a gap of more than 100 ms the
\* accumulator restarts from zero and the sample's own delta is dropped
GyroContribution ==
    GyroCriticalStep
        => delta_angle_acc' =
               IF now_us - p_last_sample_us > 100000
               THEN p_delta_coning
               ELSE VAdd(delta_angle_acc, VAdd(p_delta_angle, p_delta_coning))
AccelContribution ==
    AccelCriticalStep
        => delta_velocity_acc' =
               IF now_us - p_last_sample_us > 100000
               THEN VZero
               ELSE VAdd(delta_velocity_acc, VDiv(VMul(p_sample, p_dt), 1000))

\* under raw gyro samples of the constant rate (10, 0, 0), every publish
\* after the first publishes 10 times the published dt on x and 0 on y and z
PublishedConstantRate ==
    (PublishGyroStep /\ delta_angle_valid /\ ConstantRawStream(10))
        => delta_angle' = <<(10 * 2 * delta_angle_dt') \div 1000, 0, 0>>

\* the trapezoidal delta of a raw gyro call
RawPathTrapezoid ==
    p_pc \in {"gyro_raw_wait", "gyro_raw_cs"}
        => p_delta_angle = VDiv(VMul(VAdd(p_sample, last_raw_gyro), p_dt), 1000)

\* C18, as claimed: on the raw and on the delta-angle path the delta of a
\* gyro sample is (current + previous raw) * 0.5 * dt, the locked block adds
\* it with the coning term, an accel sample adds value * dt, and a constant
\* rate (r, 0, 0) is published as r times the published dt.
C18_TrapezoidOnBothPaths ==
    /\ [](/\ RawPathTrapezoid
          /\ p_pc \in {"delta_angle_wait", "delta_angle_cs"}
                => p_delta_angle = VDiv(VMul(VAdd(p_sample, last_raw_gyro), p_dt), 1000))
    /\ [][GyroContribution /\ AccelContribution /\ PublishedConstantRate]_vars

\* C18, amended: only the raw path takes the trapezoidal delta; the delta of
\* a delta-angle call is its corrected rate times dt, without the previous
\* raw rate.  The rest as claimed.
C18_TrapezoidOnRawPath ==
    /\ [](/\ RawPathTrapezoid
          /\ p_pc \in {"delta_angle_wait", "delta_angle_cs"}
                => p_delta_angle = VDiv(VMul(p_sample, 2 * p_dt), 1000))
    /\ [][GyroContribution /\ AccelContribution /\ PublishedConstantRate]_vars

\* the second of two raw samples of rate (10, 0, 0), published by itself
C18_Witness ==
    /\ ConstantRawStream(10)
    /\ n_samples = 2
    /\ delta_angle_valid
    /\ delta_angle_dt = 20000
    /\ delta_angle = <<400, 0, 0>>
    /\ last_raw_gyro = <<10, 0, 0>>

\* a step that is the body of update_gyro / update_accel on an instance that
\* has not been killed
UpdateGyroStep == c_pc = "update_gyro_cs" /\ c_pc' = "idle" /\ ~killed
UpdateAccelStep == c_pc = "update_accel_cs" /\ c_pc' = "idle" /\ ~killed

\* C19: an update call leaves the low pass of its sensor with the configured
\* target as applied cutoff; it changes the cutoff only when the target
\* differs from the last-applied value, and otherwise leaves the filter as it
\* was; no other step changes a cutoff or a last-applied value.
C19_RetuneChangeDriven ==
    [][/\ UpdateGyroStep
            => /\ gyro_filter'.cutoff = gyro_filter_cutoff
               /\ last_gyro_filter_hz' = gyro_filter_cutoff
               /\ gyro_filter'.cutoff # gyro_filter.cutoff
                      => last_gyro_filter_hz # gyro_filter_cutoff
               /\ last_gyro_filter_hz = gyro_filter_cutoff => gyro_filter' = gyro_filter
       /\ UpdateAccelStep
            => /\ accel_filter'.cutoff = accel_filter_cutoff
               /\ last_accel_filter_hz' = accel_filter_cutoff
               /\ accel_filter'.cutoff # accel_filter.cutoff
                      => last_accel_filter_hz # accel_filter_cutoff
               /\ last_accel_filter_hz = accel_filter_cutoff => accel_filter' = accel_filter
       /\ ~UpdateGyroStep
            => gyro_filter'.cutoff = gyro_filter.cutoff /\ UNCHANGED last_gyro_filter_hz
       /\ ~UpdateAccelStep
            => accel_filter'.cutoff = accel_filter.cutoff /\ UNCHANGED last_accel_filter_hz]_vars

\* both targets were changed after the first retune, and both update calls
\* have applied the new ones
C19_Witness ==
    /\ gyro_filter_cutoff = 40
    /\ accel_filter_cutoff = 40
    /\ gyro_filter.cutoff = 40
    /\ accel_filter.cutoff = 40
    /\ last_gyro_filter_hz = 40
    /\ last_accel_filter_hz = 40
    /\ c_pc = "idle"

\* notch n is enabled and active for this instance
NotchActive(n) ==
    /\ notch_enabled[n]
    /\ ~harmonic_notches[n].inactive
    /\ (harmonic_notches[n].all_imus \/ gyro_instance = imu_primary)

\* the value that reaches notch n when the notches before it that are active
\* have been applied in configuration order; for n one past the last notch,
\* the value that reaches the low pass
RECURSIVE NotchInput(_)
NotchInput(n) ==
    IF n = 1 THEN p_sample
    ELSE LET x == NotchInput(n - 1)
         IN  IF NotchActive(n - 1) THEN FilterOut(notch_filter[n - 1], x) ELSE x

ChainOutput == FilterOut(gyro_filter, NotchInput(Len(harmonic_notches) + 1))
ChainFailed == is_nan(ChainOutput) \/ is_inf(ChainOutput)

\* the active notches are applied in order and the low pass last, on their
\* output; this on a cycle whose output is finite
ActiveNotchesThenLowPass ==
    (GyroCriticalStep /\ ~ChainFailed)
        => /\ \A n \in Notches :
                 NotchActive(n) => notch_filter'[n] = FilterApply(notch_filter[n], NotchInput(n))
           /\ gyro_filter' = FilterApply(gyro_filter, NotchInput(Len(harmonic_notches) + 1))

\* C20, as claimed: a notch that is disabled, or inactive for this instance,
\* is not applied and its state is reset on that cycle; the others are
\* applied in configuration order, and the low pass last.
C20_DisabledOrInactiveReset ==
    [][/\ ActiveNotchesThenLowPass
       /\ GyroCriticalStep
            => \A n \in Notches :
                 ~NotchActive(n) => notch_filter'[n] = FilterReset(notch_filter[n])]_vars

\* C20, amended: a notch that is enabled and inactive for this instance is
\* not applied and its state is reset on that cycle; a disabled notch is
\* not applied and its state is left as it is (it is reset only with every
\* other filter, on a cycle whose output is not finite); the others are
\* applied in configuration order, and the low pass last.
C20_InactiveResetDisabledKept ==
    [][/\ ActiveNotchesThenLowPass
       /\ GyroCriticalStep
            => \A n \in Notches :
                 /\ (notch_enabled[n] /\ ~NotchActive(n))
                        => notch_filter'[n] = FilterReset(notch_filter[n])
                 /\ (~notch_enabled[n] /\ ~ChainFailed)
                        => notch_filter'[n] = notch_filter[n]
                 /\ ChainFailed => notch_filter'[n] = FilterReset(notch_filter[n])]_vars

\* a sample has gone through the cascade while notch 1, disabled after it
\* had been applied, still holds its history, and notch 3, enabled, was
\* applied
C20_Witness ==
    /\ p_pc = "gyro_raw_tap"
    /\ ~notch_enabled[1]
    /\ notch_filter[1].init
    /\ notch_enabled[3]
    /\ notch_filter[3].init
    /\ ~notch_filter[2].init

\* C21: a step in which the consumer does not move (every step of a notify
\* call, a fifo reset, a temperature publish, and what the front end and time
\* do) leaves the published gyro and accel reading, delta, dt, valid flag and
\* healthy flag as they were.
C21_OnlyConsumerPublishes ==
    [][c_pc' = c_pc => UNCHANGED <<gyroPub, accelPub>>]_vars

\* both sensors have integrated a sample and nothing has been published
C21_Witness ==
    /\ n_samples = 2
    /\ p_pc = "idle"
    /\ new_gyro_data
    /\ new_accel_data
    /\ delta_angle_acc # VZero
    /\ delta_velocity_acc # VZero
    /\ ~gyro_healthy
    /\ ~accel_healthy
    /\ ~delta_angle_valid
    /\ ~delta_velocity_valid
    /\ delta_angle = VZero
    /\ delta_velocity = VZero

\* a step that is the body of update_gyro / update_accel
PollGyroStep == c_pc = "update_gyro_cs" /\ c_pc' = "idle"
PollAccelStep == c_pc = "update_accel_cs" /\ c_pc' = "idle"

\* C22: an update call made while the new-data flag of its sensor is false
\* leaves the published fields, the accumulator and the flag as they were;
\* an update call that finds the flag set (on an instance that has not been
\* killed) publishes what has been accumulated and clears the flag.
C22_EmptyPollIsNoOp ==
    [][/\ (PollGyroStep /\ ~new_gyro_data)
            => UNCHANGED <<gyroPub, gyroAccum, new_gyro_data>>
       /\ (PollAccelStep /\ ~new_accel_data)
            => UNCHANGED <<accelPub, accelAccum, new_accel_data>>
       /\ (PollGyroStep /\ new_gyro_data /\ ~killed)
            => /\ delta_angle' = delta_angle_acc
               /\ delta_angle_dt' = delta_angle_acc_dt
               /\ delta_angle_valid'
               /\ ~new_gyro_data'
       /\ (PollAccelStep /\ new_accel_data /\ ~killed)
            => /\ delta_velocity' = delta_velocity_acc
               /\ delta_velocity_dt' = delta_velocity_acc_dt
               /\ delta_velocity_valid'
               /\ ~new_accel_data']_vars

\* update_gyro has run without data (it has applied the cutoff and published
\* nothing), and a sample accumulated since waits for the next poll
C22_Witness ==
    /\ last_gyro_filter_hz = gyro_filter_cutoff
    /\ ~delta_angle_valid
    /\ ~gyro_healthy
    /\ new_gyro_data
    /\ delta_angle_acc # VZero
    /\ delta_angle_acc_dt > 0
    /\ c_pc = "idle"

\* the positions of a notify call: waiting for _sem, inside the locked block,
\* and after it, where the logging tap and the primary reconcile run
WaitPcs == {"gyro_raw_wait", "delta_angle_wait", "accel_raw_wait", "delta_velocity_wait"}
CsPcs == GyroCsPcs \cup AccelCsPcs
TapPcs == GyroTapPcs \cup AccelTapPcs

\* C23: a notify call updates the rate estimator before anything else, then
\* takes the lock, accumulates, filters, sets the new-data flag and gives
\* the lock back in one block, and only then runs the logging tap and, for
\* gyro, the primary reconcile; the tap and set_primary never run while the
\* producer holds the lock.
C23_TapsAfterUnlock ==
    /\ [](p_pc \in TapPcs => sem # "producer")
    /\ [][/\ UNCHANGED p_pc => UNCHANGED <<sample_gyro_count, sample_accel_count>>
          /\ (p_pc' # p_pc /\ <<gyroTiming, accelTiming>>' # <<gyroTiming, accelTiming>>)
                => p_pc = "idle"
          /\ (p_pc' # p_pc /\ p_pc' \in WaitPcs) => p_pc = "idle"
          /\ (p_pc' # p_pc /\ p_pc' \in CsPcs)
                => (p_pc \in WaitPcs /\ sem = "free" /\ sem' = "producer"
                    /\ UNCHANGED <<gyroAccum, accelAccum, gyroFilt, accelFilt,
                                   new_gyro_data, new_accel_data>>)
          /\ (p_pc' # p_pc /\ p_pc' \in GyroTapPcs)
                => (p_pc \in GyroCsPcs /\ sem = "producer" /\ sem' = "free"
                    /\ new_gyro_data' /\ last_raw_gyro' = p_sample)
          /\ (p_pc' # p_pc /\ p_pc' \in AccelTapPcs)
                => (p_pc \in AccelCsPcs /\ sem = "producer" /\ sem' = "free"
                    /\ new_accel_data')
          /\ (p_pc \in TapPcs /\ p_pc' # p_pc)
                => (p_pc' = "idle" /\ sem # "producer"
                    /\ UNCHANGED <<sem, gyroVars, accelVars>>)
          /\ set_primary_calls' # set_primary_calls
                => (p_pc \in GyroTapPcs /\ p_pc' = "idle" /\ sem # "producer")]_vars

\* the primary reconcile of a gyro notify call has called set_primary, after
\* the call had marked its data and given the lock back
C23_Witness ==
    /\ set_primary_calls = 1
    /\ p_pc = "idle"
    /\ sem = "free"
    /\ new_gyro_data
    /\ last_call \in {"gyro_raw", "delta_angle"}
    /\ last_raw_gyro # VZero

GyroRawCriticalStep == p_pc = "gyro_raw_cs" /\ p_pc' = "gyro_raw_tap"
AccelRawCriticalStep == p_pc = "accel_raw_cs" /\ p_pc' = "accel_raw_tap"
GyroDtAdded ==
    delta_angle_acc_dt'
      - (IF IsStale(now_us, p_last_sample_us) THEN 0 ELSE delta_angle_acc_dt)
AccelDtAdded ==
    delta_velocity_acc_dt'
      - (IF IsStale(now_us, p_last_sample_us) THEN 0 ELSE delta_velocity_acc_dt)

\* C25: for every accepted raw gyro or accel sample, whatever its timestamp
\* and arrival time, the dt added to the accumulated dt is at least 0 and at
\* most 100 ms, and at most 1/40 s when it is derived from the sample rate
\* (as it is for a sample without a timestamp); the accumulated dt never
\* grows by more than 100 ms in one step.
C25_BoundedSampleDt ==
    [][/\ GyroRawCriticalStep =>
            /\ GyroDtAdded \in 0 .. StaleGapUs
            /\ delta_angle_acc_dt' - delta_angle_acc_dt <= StaleGapUs
            /\ p_sample_us = now_us /\ p_dt = RateDt(gyro_raw_sample_rates)
                  => GyroDtAdded <= RateDt(MinRateMilliHz)
       /\ AccelRawCriticalStep =>
            /\ AccelDtAdded \in 0 .. StaleGapUs
            /\ delta_velocity_acc_dt' - delta_velocity_acc_dt <= StaleGapUs
            /\ p_sample_us = now_us /\ p_dt = RateDt(accel_raw_sample_rates)
                  => AccelDtAdded <= RateDt(MinRateMilliHz)]_vars

\* the part of C25 that the unsigned subtraction does give: no locked block
\* takes time off the accumulated dt it found or reset
C25_SampleDtNotNegative ==
    [][/\ GyroRawCriticalStep => GyroDtAdded >= 0
       /\ AccelRawCriticalStep => AccelDtAdded >= 0]_vars

\* C26: once a finite raw sample has been ingested, whatever non-finite
\* sample came before it, the accumulator, the cached previous raw value and
\* the cached previous delta are finite, and every delta published from then
\* on is finite.
C26_NonFiniteDoesNotPoison ==
    /\ []((p_pc \in GyroTapPcs /\ IsFiniteV(p_sample)) =>
            /\ IsFiniteV(delta_angle_acc)
            /\ IsFiniteV(last_raw_gyro)
            /\ IsFiniteV(last_delta_angle))
    /\ []((p_pc \in AccelTapPcs /\ IsFiniteV(p_sample)) => IsFiniteV(delta_velocity_acc))
    /\ [][(PollGyroStep /\ IsFiniteV(last_raw_gyro)) => IsFiniteV(delta_angle')]_vars
====
